---- MODULE Spec2Model ----
(***************************************************************************)
(* A model of react2 (src/src/react.js): vnode construction, tree          *)
(* expansion, materialization into a DOM-like target tree, prop            *)
(* reconciliation, string rendering, and render/update on a container.     *)
(*                                                                         *)
(* JavaScript values are modelled as records with a "kind" field.  The     *)
(* scripts carry no "use strict" directive and no module syntax, so they   *)
(* run as classic (sloppy-mode) scripts: assigning a property on a         *)
(* primitive string/number/boolean is silently ignored, while assigning    *)
(* or reading a property on null/undefined throws a TypeError.             *)
(***************************************************************************)
EXTENDS Naturals, Sequences, FiniteSets, TLC

VARIABLES container, appOut, call

vars == <<container, appOut, call>>

\* Bound on the number of target children of the rendered root under which
\* update may still be called (update can append children without limit).
MaxTargetKids == 2

-----------------------------------------------------------------------------
(* Values *)

\* The number NaN as a prop value (the only value with v !== v).
NaNVal == "#NaN"

\* String(value), as setAttribute applies it to its value argument.
ToStr(v) == IF v = NaNVal THEN "NaN" ELSE v

\* a !== b
StrictNotEqual(a, b) == a # b \/ a = NaNVal

-----------------------------------------------------------------------------
(* Props: null/undefined, or an object whose own keys are kept in          *)
(* insertion order as a sequence of <<key, value>> pairs.                  *)

NullProps == [isNull |-> TRUE, kv |-> <<>>]

Obj(kv) == [isNull |-> FALSE, kv |-> kv]

\* props || {}
OrEmpty(p) == IF p.isNull THEN <<>> ELSE p.kv

hasOwnProperty(kv, key) == \E i \in 1..Len(kv) : kv[i][1] = key

Get(kv, key) == kv[CHOOSE i \in 1..Len(kv) : kv[i][1] = key][2]

-----------------------------------------------------------------------------
(* Vnodes *)

Null == [kind |-> "empty", val |-> "null"]

Undefined == [kind |-> "empty", val |-> "undefined"]

True == [kind |-> "empty", val |-> "true"]

False == [kind |-> "empty", val |-> "false"]

Text(s) == [kind |-> "text", val |-> s]

Frag(items) == [kind |-> "frag", items |-> items]

\* A zero-argument function used as a late-bound description.
Thunk(v) == [kind |-> "thunk", ret |-> v]

\* The functions used as component types.
ComponentNames == {"App", "Label", "Wrap", "List", "Boom"}

RECURSIVE ConcatArgs(_, _)
\* [].concat(...children): array arguments are flattened one level.
ConcatArgs(args, i) ==
  IF i > Len(args) THEN <<>>
  ELSE (IF args[i].kind = "frag" THEN args[i].items ELSE <<args[i]>>)
       \o ConcatArgs(args, i + 1)

createElement(type, props, args) ==
  [kind     |-> IF type \in ComponentNames THEN "comp" ELSE "elem",
   type     |-> type,
   props    |-> props,
   children |-> ConcatArgs(args, 1)]

h(type) == createElement(type, NullProps, <<>>)

isEmptyNode(v) == v.kind = "empty"

isTextNode(v) == v.kind = "text"

isLiteralNode(v) == isTextNode(v) \/ isEmptyNode(v)

isHtmlNode(v) == v.kind = "elem"

isFragmentNode(v) == v.kind = "frag"

isFunctionalComponentNode(v) == v.kind = "comp"

\* null or undefined: reading or writing a property of it throws.
IsNullish(v) == v.kind = "empty" /\ v.val \in {"null", "undefined"}

-----------------------------------------------------------------------------
(* Helpers *)

\* key.startsWith('on'), over the keys used here.
isEventListener(key) == key \in {"onClick", "onInput"}

\* key.slice(2).toLowerCase()
getListenerName(key) ==
  CASE key = "onClick" -> "click"
    [] key = "onInput" -> "input"
    [] OTHER -> key

\* The target element that does not exist (prevTree.__ref of a primitive).
NoEl == [kind |-> "undefined"]

NewNode(kind, tag, data, vnode) ==
  [kind |-> kind, tag |-> tag, data |-> data, attrs |-> {}, listeners |-> {},
   children |-> <<>>, vnode |-> vnode]

\* A running call on a target element: its error, the element, and the
\* target operations issued so far, each <<operation, key, value>>.
Running(el) == [err |-> "none", el |-> el, ops |-> <<>>]

setElementProp(st, key, value) ==
  IF st.el.kind = "undefined" THEN [st EXCEPT !.err = "TypeError"]
  ELSE IF isEventListener(key)
  THEN [st EXCEPT
          !.el.listeners = @ \cup {<<getListenerName(key), value>>},
          !.ops = Append(@, <<"addEventListener", key, value>>)]
  ELSE [st EXCEPT
          !.el.attrs = {a \in @ : a[1] # key} \cup {<<key, ToStr(value)>>},
          !.ops = Append(@, <<"setAttribute", key, value>>)]

removeElementProp(st, key, value) ==
  IF st.el.kind = "undefined" THEN [st EXCEPT !.err = "TypeError"]
  ELSE IF isEventListener(key)
  THEN [st EXCEPT
          !.el.listeners = @ \ {<<getListenerName(key), value>>},
          !.ops = Append(@, <<"removeEventListener", key, value>>)]
  ELSE [st EXCEPT
          !.el.attrs = {a \in @ : a[1] # key},
          !.ops = Append(@, <<"removeAttribute", key, value>>)]

RECURSIVE RemoveOldProps(_, _, _, _)
\* The first forEach of updateElementProps; nextProps is not yet defaulted,
\* so nextProps.hasOwnProperty throws when nextProps is null/undefined.
RemoveOldProps(st, prevKv, nextProps, i) ==
  IF st.err # "none" \/ i > Len(prevKv) THEN st
  ELSE IF nextProps.isNull THEN [st EXCEPT !.err = "TypeError"]
  ELSE RemoveOldProps(
         IF ~hasOwnProperty(nextProps.kv, prevKv[i][1])
         THEN removeElementProp(st, prevKv[i][1], prevKv[i][2])
         ELSE st,
         prevKv, nextProps, i + 1)

\* The mutation for C4: the comparison with the previous value is dropped.
ShouldSetAlways(prevKv, key, value) == key # "key" /\ key # "ref"

\* The condition under which the second forEach sets a key.
ShouldSet(prevKv, key, value) ==
  /\ \/ ~hasOwnProperty(prevKv, key)
     \/ StrictNotEqual(Get(prevKv, key), value)
  /\ key # "key"
  /\ key # "ref"

RECURSIVE SetNewProps(_, _, _, _)
\* The second forEach of updateElementProps.
SetNewProps(st, prevKv, nextKv, i) ==
  IF st.err # "none" \/ i > Len(nextKv) THEN st
  ELSE LET key == nextKv[i][1]
           value == nextKv[i][2]
           st1 == IF isEventListener(key) /\ hasOwnProperty(prevKv, key)
                  THEN removeElementProp(st, key, Get(prevKv, key))
                  ELSE st
       IN SetNewProps(
            IF ShouldSet(prevKv, key, value)
            THEN (IF st1.err # "none" THEN st1
                  ELSE setElementProp(st1, key, value))
            ELSE st,
            prevKv, nextKv, i + 1)

updateElementProps(el, nextProps, prevProps) ==
  LET st == RemoveOldProps(Running(el), OrEmpty(prevProps), nextProps, 1)
  IN SetNewProps(st, OrEmpty(prevProps), OrEmpty(nextProps), 1)

-----------------------------------------------------------------------------
(* Component functions *)

\* {...defaultProps, ...vnode.props, children: vnode.children}; none of the
\* component functions carries defaultProps, and createElement always sets
\* children to an array (truthy), so the "|| props.children" arm never runs.
getComponentProps(v) == [props |-> OrEmpty(v.props), children |-> v.children]

Returns(v) == [err |-> "none", v |-> v]

Throws(e) == [err |-> e, v |-> Null]

\* vnode.type(getComponentProps(vnode)).  App reads state kept outside the
\* library (like the demo's state.times); appOut is what it currently does.
CallComponent(v) ==
  LET p == getComponentProps(v) IN
  CASE v.type = "Label" -> Returns(Text("a"))
    [] v.type = "Wrap"  -> Returns(h("Label"))
    [] v.type = "List"  -> Returns(Frag(p.children))
    [] v.type = "Boom"  -> Throws("ComponentError")
    [] v.type = "App"   -> IF appOut.throws THEN Throws("ComponentError")
                           ELSE Returns(appOut.v)

\* if (typeof vnode === "function") vnode = vnode();
CallIfFunction(v) == IF v.kind = "thunk" THEN v.ret ELSE v

\* The error of the first element that has one, as Array.map meets it.
FirstErr(rs) ==
  IF \E i \in 1..Len(rs) : rs[i].err # "none"
  THEN rs[CHOOSE i \in 1..Len(rs) :
            /\ rs[i].err # "none"
            /\ \A j \in 1..(i - 1) : rs[j].err = "none"].err
  ELSE "none"

-----------------------------------------------------------------------------
(* expandTree *)

RECURSIVE expandTree(_)

\* The mutation for C7: a component's output is returned without being
\* expanded in turn.
expandTreeShallow(vnode) ==
  LET v == CallIfFunction(vnode) IN
  IF isEmptyNode(v) \/ isTextNode(v) THEN Returns(v)
  ELSE IF isFragmentNode(v)
  THEN LET rs == [i \in 1..Len(v.items) |-> expandTree(v.items[i])]
       IN IF FirstErr(rs) # "none" THEN Throws(FirstErr(rs))
          ELSE Returns(Frag([i \in 1..Len(rs) |-> rs[i].v]))
  ELSE IF isFunctionalComponentNode(v) THEN CallComponent(v)
  ELSE LET rs == [i \in 1..Len(v.children) |-> expandTree(v.children[i])]
       IN IF FirstErr(rs) # "none" THEN Throws(FirstErr(rs))
          ELSE Returns([v EXCEPT !.children = [i \in 1..Len(rs) |-> rs[i].v]])

expandTree(vnode) ==
  LET v == CallIfFunction(vnode) IN
  IF isEmptyNode(v) \/ isTextNode(v) THEN Returns(v)
  ELSE IF isFragmentNode(v)
  THEN LET rs == [i \in 1..Len(v.items) |-> expandTree(v.items[i])]
       IN IF FirstErr(rs) # "none" THEN Throws(FirstErr(rs))
          ELSE Returns(Frag([i \in 1..Len(rs) |-> rs[i].v]))
  ELSE IF isFunctionalComponentNode(v)
  THEN LET r == CallComponent(v)
       IN IF r.err # "none" THEN r ELSE expandTree(r.v)
  ELSE LET rs == [i \in 1..Len(v.children) |-> expandTree(v.children[i])]
       IN IF FirstErr(rs) # "none" THEN Throws(FirstErr(rs))
          ELSE Returns([v EXCEPT !.children = [i \in 1..Len(rs) |-> rs[i].v]])

-----------------------------------------------------------------------------
(* renderElement *)

Made(node) == [err |-> "none", node |-> node]

Failed(e) == [err |-> e, node |-> NoEl]

\* el.__vnode = vnode; vnode.__ref = el.  The second assignment throws on
\* null/undefined and is ignored on the other primitives.
backRef(el, vnode) ==
  IF IsNullish(vnode) THEN Failed("TypeError")
  ELSE Made([el EXCEPT !.vnode = vnode])

\* parent.appendChild(node): a document fragment hands over its children.
appendChild(children, node) ==
  IF node.kind = "fragment" THEN children \o node.children
  ELSE Append(children, node)

RECURSIVE renderElement(_)
RECURSIVE RenderInto(_, _, _)

\* vs.forEach((e) => parent.appendChild(renderElement(e))) onto the child
\* list acc; stops at the first child that throws, keeping what was appended.
RenderInto(acc, vs, i) ==
  IF i > Len(vs) THEN [err |-> "none", children |-> acc]
  ELSE LET r == renderElement(vs[i])
       IN IF r.err # "none" THEN [err |-> r.err, children |-> acc]
          ELSE RenderInto(appendChild(acc, r.node), vs, i + 1)

renderElement(vnode) ==
  LET v == CallIfFunction(vnode) IN
  IF isEmptyNode(v)
  THEN backRef(NewNode("comment", "#comment", "(" \o v.val \o ")", Undefined), v)
  ELSE IF isTextNode(v)
  THEN backRef(NewNode("text", "#text", v.val, Undefined), v)
  ELSE IF isFragmentNode(v)
  THEN LET kids == RenderInto(<<>>, v.items, 1)
       IN IF kids.err # "none" THEN Failed(kids.err)
          ELSE backRef([NewNode("fragment", "#document-fragment", "", Undefined)
                          EXCEPT !.children = kids.children], v)
  ELSE IF isFunctionalComponentNode(v)
  THEN LET r == CallComponent(v)
       IN IF r.err # "none" THEN Failed(r.err) ELSE renderElement(r.v)
  ELSE LET el == backRef(NewNode("element", v.type, "", Undefined), v).node
           st == updateElementProps(el, v.props, NullProps)
           kids == RenderInto(<<>>, v.children, 1)
       IN IF st.err # "none" THEN Failed(st.err)
          ELSE IF kids.err # "none" THEN Failed(kids.err)
          ELSE Made([st.el EXCEPT !.children = kids.children])

-----------------------------------------------------------------------------
(* render *)

\* A container element that render has not been called on.
FreshContainer == [children |-> <<>>, vnode |-> Undefined]

Done(e, node) == [err |-> e, node |-> node, propsDone |-> FALSE]

\* render(vnode, container) on a DOM container.
render(vnode, node) ==
  LET cleared == [children |-> <<>>, vnode |-> vnode]
      r == renderElement(vnode)
  IN IF IsNullish(vnode) THEN Done("TypeError", cleared)
     ELSE IF r.err # "none" THEN Done(r.err, cleared)
     ELSE Done("none", [cleared EXCEPT !.children = appendChild(<<>>, r.node)])

-----------------------------------------------------------------------------
(* renderString *)

Str(s) == [err |-> "none", s |-> s]

NoStr(e) == [err |-> e, s |-> ""]

RECURSIVE Join(_, _, _)
\* parts.join(sep), from index i on.
Join(parts, sep, i) ==
  IF i > Len(parts) THEN ""
  ELSE IF i = Len(parts) THEN parts[i]
  ELSE parts[i] \o sep \o Join(parts, sep, i + 1)

\* render(e, renderString), as the Fragment arm of renderString calls it:
\* the container is the function renderString, which has no appendChild.
\* backRef runs, then the argument renderElement(e), then the call fails.
RenderIntoFunction(e) ==
  IF IsNullish(e) THEN NoStr("TypeError")
  ELSE IF renderElement(e).err # "none" THEN NoStr(renderElement(e).err)
  ELSE NoStr("TypeError")

RECURSIVE AttrPairs(_, _)
\* Object.keys(props).filter(not listener).map(key="value")
AttrPairs(kv, i) ==
  IF i > Len(kv) THEN <<>>
  ELSE (IF isEventListener(kv[i][1]) THEN <<>>
        ELSE <<kv[i][1] \o "=\"" \o ToStr(kv[i][2]) \o "\"">>)
       \o AttrPairs(kv, i + 1)

RECURSIVE renderString(_)
renderString(vnode) ==
  LET v == CallIfFunction(vnode) IN
  IF isEmptyNode(v) THEN Str("")
  ELSE IF isTextNode(v) THEN Str(v.val)
  ELSE IF isFragmentNode(v)
  THEN LET rs == [i \in 1..Len(v.items) |-> RenderIntoFunction(v.items[i])]
       IN IF FirstErr(rs) # "none" THEN NoStr(FirstErr(rs))
          ELSE Str(Join([i \in 1..Len(rs) |-> rs[i].s], "\n", 1))
  ELSE IF isFunctionalComponentNode(v)
  THEN LET r == CallComponent(v)
       IN IF r.err # "none" THEN NoStr(r.err) ELSE renderString(r.v)
  ELSE LET props == Join(AttrPairs(OrEmpty(v.props), 1), " ", 1)
           rs == [i \in 1..Len(v.children) |-> renderString(v.children[i])]
           children == Join([i \in 1..Len(rs) |-> rs[i].s], "\n", 1)
       IN IF FirstErr(rs) # "none" THEN NoStr(FirstErr(rs))
          ELSE IF props # ""
          THEN Str("<" \o v.type \o " " \o props \o ">" \o children
                   \o "</" \o v.type \o ">")
          ELSE Str("<" \o v.type \o ">" \o children \o "</" \o v.type \o ">")

-----------------------------------------------------------------------------
(* update *)

\* vnode.props / vnode.children of a non-null value: undefined unless the
\* value is an object created by createElement.
PropsOf(v) == IF v.kind \in {"elem", "comp"} THEN v.props ELSE NullProps

HasChildren(v) == v.kind \in {"elem", "comp"}

\* The container with its first child replaced by el (el is that child,
\* mutated in place), unless there is no such element.
WithRoot(node, el) ==
  IF el.kind = "undefined" THEN node
  ELSE [node EXCEPT !.children[1] = el]

\* Lines 300-316: the dispatch on the two child lists.
PatchChildren(node, el, prevTree, nextTree) ==
  IF ~HasChildren(prevTree) \/ ~HasChildren(nextTree)
  THEN [err |-> "TypeError", node |-> WithRoot(node, el), propsDone |-> TRUE]
  ELSE LET prevChildren == prevTree.children
           nextChildren == nextTree.children
           kids == RenderInto(el.children, nextChildren, 1)
       IN IF Len(prevChildren) = 0 /\ Len(nextChildren) = 0
          THEN [err |-> "none", node |-> WithRoot(node, el), propsDone |-> TRUE]
          ELSE IF Len(prevChildren) # 0 /\ Len(nextChildren) = 0
          THEN [err |-> "none",
                node |-> WithRoot(node, [el EXCEPT !.children = <<>>]),
                propsDone |-> TRUE]
          ELSE IF Len(prevChildren) = 0 /\ Len(nextChildren) # 0
          THEN [err |-> kids.err,
                node |-> WithRoot(node, [el EXCEPT !.children = kids.children]),
                propsDone |-> TRUE]
          ELSE [err |-> "none", node |-> WithRoot(node, el), propsDone |-> TRUE]

\* Lines 297-316: everything update does after the two trees are read.
Patch(node, prevTree, nextTree) ==
  IF IsNullish(prevTree) \/ IsNullish(nextTree) THEN Done("TypeError", node)
  ELSE LET el == IF isHtmlNode(prevTree) THEN node.children[1] ELSE NoEl
           st == updateElementProps(el, PropsOf(nextTree), PropsOf(prevTree))
       IN IF st.err # "none" THEN Done(st.err, WithRoot(node, st.el))
          ELSE PatchChildren(node, st.el, prevTree, nextTree)

\* The mutation for C3: the root's children are cleared before the
\* description is expanded, so a throwing component leaves a changed target.
updateRenderedEager(node) ==
  LET prevTree == node.children[1].vnode
      nextTree == expandTree(node.vnode)
  IN IF nextTree.err # "none"
     THEN Done(nextTree.err, [node EXCEPT !.children[1].children = <<>>])
     ELSE Patch(node, prevTree, nextTree.v)

\* update on a container that has a first child.
updateRendered(node) ==
  LET prevTree == node.children[1].vnode
      nextTree == expandTree(node.vnode)
  IN IF nextTree.err # "none" THEN Done(nextTree.err, node)
     ELSE Patch(node, prevTree, nextTree.v)

\* The mutation for C2: a container with no child is silently skipped.
updateGuarded(node) ==
  IF Len(node.children) = 0 THEN Done("none", node)
  ELSE updateRendered(node)

\* update(node): node.childNodes[0] is undefined on a container with no
\* child, and reading its __vnode throws.
update(node) ==
  IF Len(node.children) = 0 THEN Done("TypeError", node)
  ELSE updateRendered(node)

-----------------------------------------------------------------------------
(* Inputs *)

TextA == Text("a")

TextB == Text("b")

\* Prop maps the root element of the description is given.
RootProps ==
  { NullProps,
    Obj(<<>>),
    Obj(<< <<"id", "x">> >>),
    Obj(<< <<"id", "y">>, <<"onClick", "f">> >>),
    Obj(<< <<"onClick", "g">> >>) }

\* Argument lists the root element of the description is built from.
RootArgs ==
  { <<>>,
    <<TextA>>,
    <<Frag(<<Frag(<<TextA, TextB>>)>>)>>,
    <<TextA, Null>>,
    <<h("Boom")>>,
    <<False, h("span")>> }

\* What the App component does, depending on the state outside the library.
AppOutputs ==
  { [throws |-> FALSE, v |-> createElement("div", p, a)] :
      p \in RootProps, a \in RootArgs }
  \cup { [throws |-> TRUE, v |-> Null],
         [throws |-> FALSE, v |-> Null],
         [throws |-> FALSE, v |-> TextA] }

\* Descriptions handed to render.
RootVnodes ==
  { h("App"),
    Thunk(h("App")),
    Null,
    True,
    TextA,
    Frag(<<>>),
    Frag(<<createElement("p", Obj(<< <<"id", "x">> >>), <<>>), TextA>>),
    createElement("div", Obj(<< <<"onClick", "f">> >>), <<h("App")>>) }

NoCall ==
  [op |-> "none", arg |-> Null, err |-> "none", ret |-> Null, propsDone |-> FALSE]

-----------------------------------------------------------------------------
(* The library on one container *)

Init ==
  /\ container = FreshContainer
  /\ appOut = [throws |-> FALSE, v |-> h("div")]
  /\ call = NoCall

\* The state outside the library changes, and with it what App returns.
\* Two changes in a row with no call in between are one change.
SetState ==
  /\ \E o \in AppOutputs : appOut' = o
  /\ appOut' # appOut
  /\ call.op # "setState"
  /\ call' = [NoCall EXCEPT !.op = "setState"]
  /\ UNCHANGED container

Render ==
  \E v \in RootVnodes :
    LET r == render(v, container) IN
    /\ container' = r.node
    /\ call' = [NoCall EXCEPT !.op = "render", !.arg = v, !.err = r.err]
    /\ UNCHANGED appOut

Update ==
  /\ IF Len(container.children) = 0 THEN TRUE
     ELSE Len(container.children[1].children) < MaxTargetKids
  /\ LET r == update(container) IN
     /\ container' = r.node
     /\ call' = [NoCall EXCEPT !.op = "update", !.err = r.err,
                               !.propsDone = r.propsDone]
  /\ UNCHANGED appOut

Next == SetState \/ Render \/ Update

Spec == Init /\ [][Next]_vars

-----------------------------------------------------------------------------
(* The functions of the library called on their own *)

Leaves == {Null, Undefined, True, False, TextA, TextB}

LeafArgs ==
  {<<>>} \cup {<<a>> : a \in Leaves} \cup {<<TextA, b>> : b \in Leaves}

SmallProps ==
  { NullProps,
    Obj(<< <<"id", "x">> >>),
    Obj(<< <<"onClick", "f">>, <<"id", "y">> >>) }

Level1 ==
  { createElement(t, p, a) :
      t \in {"div"} \cup ComponentNames, p \in SmallProps, a \in LeafArgs }
  \cup { Frag(a) : a \in LeafArgs }
  \cup { Thunk(a) : a \in Leaves }

Level2 ==
  { createElement(t, NullProps, <<TextB, x>>) :
      t \in {"section", "List"}, x \in Level1 }
  \cup { Frag(<<x>>) : x \in Level1 }

PureVnodes == Leaves \cup Level1 \cup Level2

\* Values a prop key takes; "" stands for the key being absent.
KeyValues(key) ==
  CASE key = "id"      -> {"", "x", "y", NaNVal}
    [] key = "onClick" -> {"", "f", "g"}
    [] key = "key"     -> {"", "k"}

Entry(key, value) == IF value = "" THEN <<>> ELSE << <<key, value>> >>

AllProps ==
  { Obj(Entry("id", a) \o Entry("onClick", b) \o Entry("key", c)) :
      a \in KeyValues("id"), b \in KeyValues("onClick"), c \in KeyValues("key") }
  \cup { Obj(Entry("onClick", b) \o Entry("id", a)) :
           a \in {"x", "y"}, b \in {"f", "g"} }
  \cup { NullProps }

\* The calls that can be made: a function of one vnode on each vnode, and
\* updateElementProps on each pair of prop maps.
InitPure ==
  /\ container = FreshContainer
  /\ appOut = [throws |-> FALSE, v |-> h("div")]
  /\ call \in { [NoCall EXCEPT !.op = "vnode", !.arg = v] : v \in PureVnodes }
         \cup { [NoCall EXCEPT !.op = "props",
                               !.arg = [nextProps |-> n, prevProps |-> p]] :
                  n \in AllProps, p \in AllProps }

Expand ==
  /\ call.op = "vnode"
  /\ LET r == expandTree(call.arg) IN
     call' = [call EXCEPT !.op = "expandTree", !.err = r.err, !.ret = r.v]
  /\ UNCHANGED <<container, appOut>>

Materialize ==
  /\ call.op = "vnode"
  /\ LET r == renderElement(call.arg) IN
     call' = [call EXCEPT !.op = "renderElement", !.err = r.err, !.ret = r.node]
  /\ UNCHANGED <<container, appOut>>

RenderToString ==
  /\ call.op = "vnode"
  /\ LET r == renderString(call.arg) IN
     call' = [call EXCEPT !.op = "renderString", !.err = r.err, !.ret = r.s]
  /\ UNCHANGED <<container, appOut>>

\* The element updateElementProps is called on: one that was materialized
\* with prevProps.
ElementWith(prevProps) ==
  renderElement(createElement("div", prevProps, <<>>)).node

ReconcileProps ==
  /\ call.op = "props"
  /\ LET st == updateElementProps(ElementWith(call.arg.prevProps),
                                  call.arg.nextProps, call.arg.prevProps)
     IN call' = [call EXCEPT !.op = "updateElementProps", !.err = st.err,
                             !.ret = [el |-> st.el, ops |-> st.ops]]
  /\ UNCHANGED <<container, appOut>>

NextPure == Expand \/ Materialize \/ RenderToString \/ ReconcileProps

SpecPure == InitPure /\ [][NextPure]_vars

-----------------------------------------------------------------------------
(* Properties *)

\* The container's first child is an element that renderElement made.
RootIsElement ==
  /\ Len(container.children) > 0
  /\ isHtmlNode(container.children[1].vnode)

\* The root target element, the tree update reads as previous, and the tree
\* it expands as next.
RootEl == container.children[1]

PrevTree == container.children[1].vnode

NextTree == expandTree(container.vnode)

\* update ran on a rendered root element and its expansion gave an element.
UpdatedRootElement ==
  /\ call.op = "update"
  /\ RootIsElement
  /\ NextTree.err = "none"
  /\ isHtmlNode(NextTree.v)

\* C1: after update(container), when exactly one of the previous and the
\* next root children sequences is empty, the root target node has one
\* child per next child, in order, each made from that child (none when
\* next is empty).  Stated for next children that are not Fragments.
C1_BulkChildrenMatchNext ==
  ( /\ UpdatedRootElement
    /\ call.err = "none"
    /\ (Len(PrevTree.children) = 0) # (Len(NextTree.v.children) = 0)
    /\ \A i \in 1..Len(NextTree.v.children) :
         ~isFragmentNode(NextTree.v.children[i]) )
  => /\ Len(RootEl.children) = Len(NextTree.v.children)
     /\ \A i \in 1..Len(RootEl.children) :
          RootEl.children[i].vnode = NextTree.v.children[i]

\* The container was never rendered: no recorded vnode, no child.
NeverRendered == container.vnode = Undefined

\* C2 (as stated): update on a never-rendered container raises the
\* "missing prior render state" precondition error and mutates nothing.
C2_FreshUpdateRaisesPreconditionError ==
  (call.op = "update" /\ NeverRendered)
  => call.err = "PreconditionError" /\ container = FreshContainer

\* C2 (amended): update on a never-rendered container throws the TypeError
\* of reading __vnode of the missing first child, and mutates nothing; it
\* does not return silently.
C2_FreshUpdateThrowsTypeError ==
  (call.op = "update" /\ NeverRendered)
  => call.err = "TypeError" /\ container = FreshContainer

C2_Witness == call.op = "update" /\ NeverRendered /\ call.err # "none"

\* C3: when a component function throws while update re-expands the tree,
\* the error reaches the caller and the update step leaves the container's
\* target tree exactly as it was.
C3_ThrowingUpdateLeavesTargetUntouched ==
  [][(call'.op = "update" /\ call'.err = "ComponentError")
       => container' = container]_vars

C3_Witness ==
  /\ call.op = "update"
  /\ call.err = "ComponentError"
  /\ RootIsElement
  /\ Len(RootEl.children) > 0
  /\ RootEl.attrs # {}

\* The operations updateElementProps issued for one key, in order.
OpsFor(ops, key) == SelectSeq(ops, LAMBDA o : o[2] = key)

InBoth(key) ==
  /\ hasOwnProperty(OrEmpty(call.arg.prevProps), key)
  /\ hasOwnProperty(OrEmpty(call.arg.nextProps), key)

PrevValue(key) == Get(OrEmpty(call.arg.prevProps), key)

NextValue(key) == Get(OrEmpty(call.arg.nextProps), key)

Members(v) == IF isFragmentNode(v) THEN v.items ELSE v.children

AllLiteral(vs) == \A i \in 1..Len(vs) : isLiteralNode(vs[i])

IsPlaceholderFor(node, v) == node.kind = "comment" /\ node.vnode = v

\* C5: materializing an Empty vnode, as the root or as a child of an Element
\* or Fragment, completes without error and yields a comment node whose
\* back-reference is that vnode.
C5_EmptyMaterializesAsComment ==
  call.op = "renderElement" =>
    /\ isEmptyNode(call.arg)
         => call.err = "none" /\ IsPlaceholderFor(call.ret, call.arg)
    /\ ((isHtmlNode(call.arg) \/ isFragmentNode(call.arg))
          /\ AllLiteral(Members(call.arg)))
         => /\ call.err = "none"
            /\ Len(call.ret.children) = Len(Members(call.arg))
            /\ \A i \in 1..Len(Members(call.arg)) :
                 isEmptyNode(Members(call.arg)[i])
                   => IsPlaceholderFor(call.ret.children[i], Members(call.arg)[i])

\* C6: renderString of a Fragment whose members render to strings returns
\* those strings, in order, joined by a newline ("" for no members).
C6_FragmentStringJoinsMembers ==
  ( /\ call.op = "renderString"
    /\ isFragmentNode(call.arg)
    /\ \A i \in 1..Len(call.arg.items) : renderString(call.arg.items[i]).err = "none" )
  => /\ call.err = "none"
     /\ call.ret = Join([i \in 1..Len(call.arg.items) |->
                           renderString(call.arg.items[i]).s], "\n", 1)

RECURSIVE NoComponent(_)
\* No Component (and no unresolved function) occurs at any depth of v.
NoComponent(v) ==
  CASE v.kind \in {"empty", "text"} -> TRUE
    [] v.kind = "elem" -> \A i \in 1..Len(v.children) : NoComponent(v.children[i])
    [] v.kind = "frag" -> \A i \in 1..Len(v.items) : NoComponent(v.items[i])
    [] OTHER -> FALSE

\* C7: whenever expandTree returns, its result has no Component node at any
\* depth, and a Component whose function returns a Text node expands to
\* exactly that Text node.
C7_ExpandLeavesNoComponent ==
  (call.op = "expandTree" /\ call.err = "none")
  => /\ NoComponent(call.ret)
     /\ ( /\ isFunctionalComponentNode(call.arg)
          /\ isTextNode(CallComponent(call.arg).v) )
        => call.ret = CallComponent(call.arg).v

C7_Witness ==
  /\ call.op = "expandTree"
  /\ call.err = "none"
  /\ call.arg = createElement("section", NullProps, <<TextB, h("Wrap")>>)
  /\ call.ret = createElement("section", NullProps, <<TextB, TextA>>)

\* A key of the previous props is gone from the target element.
GoneFromTarget(el, key, value) ==
  IF isEventListener(key) THEN <<getListenerName(key), value>> \notin el.listeners
  ELSE \A a \in el.attrs : a[1] # key

\* C8: update reconciles the root element's props for every pair of
\* previous and next prop maps, null next props included: the reconciliation
\* completes, and every key of the previous props that the next props lack
\* is removed from the target.
C8_RootPropsReconciled ==
  UpdatedRootElement =>
    /\ call.propsDone
    /\ \A i \in 1..Len(OrEmpty(PrevTree.props)) :
         LET key == OrEmpty(PrevTree.props)[i][1]
             value == OrEmpty(PrevTree.props)[i][2]
         IN ~hasOwnProperty(OrEmpty(NextTree.v.props), key)
              => GoneFromTarget(RootEl, key, value)

\* C9: an update step that directly follows a completed update, with the
\* description unchanged in between, leaves the target tree as it is.
C9_SecondUpdateChangesNothing ==
  [][(call.op = "update" /\ call.err = "none" /\ call'.op = "update")
       => container' = container]_vars

\* The listeners the event-prefixed keys of a prop map stand for.
ListenersOf(kv) ==
  { <<getListenerName(kv[i][1]), kv[i][2]>> :
      i \in {j \in 1..Len(kv) : isEventListener(kv[j][1])} }

\* C10: after render and any number of updates, the listeners bound on the
\* root target element are exactly the event-prefixed props of the most
\* recently expanded tree.
C10_ListenersAreLatestProps ==
  ( /\ call.op \in {"render", "update"}
    /\ call.err = "none"
    /\ RootIsElement
    /\ NextTree.err = "none"
    /\ isHtmlNode(NextTree.v) )
  => RootEl.listeners = ListenersOf(OrEmpty(NextTree.v.props))

====
